---- MODULE Spec2Model ----
(***************************************************************************)
(* SaaS landing backend (src/main.py): the request handlers signup, login, *)
(* get_pricing, list_blog, create_blog and submit_contact over a document  *)
(* store with the collections "user", "blogpost" and "contactmessage".     *)
(*                                                                         *)
(* Handlers are synchronous functions that the server runs concurrently;   *)
(* the only suspension points are the store calls, so every action below   *)
(* is the stretch of one handler around one store call.  Titles, contents, *)
(* slugs and excerpts are sequences of one-character strings, because the  *)
(* code slices and rewrites them; the other strings are opaque.  A         *)
(* character beyond ASCII is written as the name of its code point,        *)
(* "U+00C9".  A value that may be None is None or Some(v), in requests,    *)
(* in responses and in stored documents alike: the fields avatar_url,      *)
(* subject, excerpt, status and published_at of a document hold such       *)
(* values.                                                                 *)
(***************************************************************************)
EXTENDS Integers, Sequences, FiniteSets, TLC

VARIABLES db, user, blogpost, contactmessage, nextId, pc, req, loc, resp

vars == <<db, user, blogpost, contactmessage, nextId, pc, req, loc, resp>>
store == <<user, blogpost, contactmessage>>

-----------------------------------------------------------------------------
(* Bounds of the model *)

MaxUsers == 2
MaxPosts == 4
MaxMsgs == 1
MaxDocs == 4

Procs == {1, 2}

-----------------------------------------------------------------------------
(* Python values *)

None == <<>>
Some(v) == <<v>>

\* dict.get(k, default)
Get(d, k, default) == IF k \in DOMAIN d THEN d[k] ELSE default

\* dict.get(k) of a field that may hold None: the stored value as it is, or
\* None when the key is missing
GetOpt(d, k) == IF k \in DOMAIN d THEN d[k] ELSE None

\* x or default, for a value x that is None or a datetime
Or(x, default) == IF x = None THEN default ELSE x[1]

\* str(_id): the store id written out as text
Str(id) == ToString(id)

\* The characters of the model: ASCII, and E acute (U+00C9, U+00E9),
\* I with dot above (U+0130), the combining dot above (U+0307), Greek alpha
\* (U+0391, U+03B1) and sigma (U+03A3, U+03C3, final U+03C2).  The grave
\* accent is written U+0060.
UpperCase == <<"A","B","C","D","E","F","G","H","I","J","K","L","M",
               "N","O","P","Q","R","S","T","U","V","W","X","Y","Z",
               "U+00C9","U+0391">>
LowerCase == <<"a","b","c","d","e","f","g","h","i","j","k","l","m",
               "n","o","p","q","r","s","t","u","v","w","x","y","z",
               "U+00E9","U+03B1">>

\* the Unicode properties Cased and Case_Ignorable, on these characters
Cased(c) ==
    \/ \E i \in 1..Len(UpperCase) : UpperCase[i] = c \/ LowerCase[i] = c
    \/ c \in {"U+0130", "U+03A3", "U+03C3", "U+03C2"}
CaseIgnorable(c) == c \in {"'", ".", ":", "^", "U+0060", "U+0307"}

\* a capital sigma is final when the nearest character before it that is not
\* case-ignorable is cased, and the nearest such character after it is not
FinalSigma(s, i) ==
    /\ \E j \in 1..(i - 1) :
          /\ ~CaseIgnorable(s[j]) /\ Cased(s[j])
          /\ \A k \in (j + 1)..(i - 1) : CaseIgnorable(s[k])
    /\ ~ \E j \in (i + 1)..Len(s) :
          /\ ~CaseIgnorable(s[j]) /\ Cased(s[j])
          /\ \A k \in (i + 1)..(j - 1) : CaseIgnorable(s[k])

\* str.lower() on one character that lowers by itself: the characters it
\* becomes
LowerChar(c) ==
    IF c = "U+0130" THEN <<"i", "U+0307">>
    ELSE IF \E i \in 1..Len(UpperCase) : UpperCase[i] = c
         THEN <<LowerCase[CHOOSE i \in 1..Len(UpperCase) : UpperCase[i] = c]>>
         ELSE <<c>>

\* str.lower()
RECURSIVE LowerFrom(_, _)
LowerFrom(s, i) ==
    IF i > Len(s) THEN <<>>
    ELSE (IF s[i] = "U+03A3"
          THEN (IF FinalSigma(s, i) THEN <<"U+03C2">> ELSE <<"U+03C3">>)
          ELSE LowerChar(s[i])) \o LowerFrom(s, i + 1)
Lower(s) == LowerFrom(s, 1)

\* str.replace(" ", "-")
ReplaceSpaces(s) == [i \in 1..Len(s) |-> IF s[i] = " " THEN "-" ELSE s[i]]

\* post.title.lower().replace(" ", "-")
Slug(title) == ReplaceSpaces(Lower(title))

ExcerptLen == 140

\* an excerpt that takes content of exactly 140 characters for too long
ExcerptFrom140(content) ==
    SubSeq(content, 1, IF Len(content) < ExcerptLen THEN Len(content) ELSE ExcerptLen)
        \o (IF Len(content) >= ExcerptLen THEN <<".",".",".">> ELSE <<>>)

\* post.content[:140] + ("..." if len(post.content) > 140 else "")
Excerpt(content) ==
    SubSeq(content, 1, IF Len(content) < ExcerptLen THEN Len(content) ELSE ExcerptLen)
        \o (IF Len(content) > ExcerptLen THEN <<".",".",".">> ELSE <<>>)

\* post.tags or []
TagsOrEmpty(tags) == IF tags = None THEN <<>> ELSE tags[1]

-----------------------------------------------------------------------------
(* Document store adapter: create_document, get_documents, db *)

\* datetime.utcnow(): logical time, the number of inserts the store has seen
utcnow == nextId

\* create_document(collection, fields): the collection after the insert
create_document(coll, fields) == Append(coll, [_id |-> nextId] @@ fields)

\* a filter maps field names to conditions; a condition names the values it
\* takes and whether it takes None, which is also how the store reads a
\* document without the field
Eq(v) == [in |-> {v}, null |-> FALSE]
In(vs) == [in |-> vs, null |-> None \in vs]

Matches(d, filter) ==
    \A k \in DOMAIN filter :
        IF k \in DOMAIN d THEN d[k] \in filter[k].in ELSE filter[k].null

\* get_documents(collection, filter): the matching documents, in store order
get_documents(coll, filter) == SelectSeq(coll, LAMBDA d : Matches(d, filter))

\* an existence filter that looks for the email and the password together
SignupFilterWithPassword(data) ==
    [email |-> Eq(data.email), password_hash |-> Eq(data.password)]

\* {"email": data.email}
SignupFilter(data) == [email |-> Eq(data.email)]

\* a login filter that forgets the password
LoginFilterEmailOnly(data) == [email |-> Eq(data.email)]

\* {"email": data.email, "password_hash": data.password}
LoginFilter(data) == [email |-> Eq(data.email), password_hash |-> Eq(data.password)]

\* a status filter that forgets "published"
StatusFilterNoneOnly == [status |-> In({None})]

\* {"status": {"$in": ["published", None]}}
StatusFilter == [status |-> In({Some("published"), None})]

-----------------------------------------------------------------------------
(* Responses *)

NoReq == [op |-> "none"]
NoResp == [status |-> 0, kind |-> "none", body |-> [detail |-> ""]]
NoLoc == [posts |-> <<>>, now |-> 0, i |-> 0]

HTTPException(code, detail) == [status |-> code, kind |-> "error", body |-> [detail |-> detail]]

\* an exception no handler catches: the server answers 500
ServerError == HTTPException(500, "Internal Server Error")

Ok(kind, body) == [status |-> 200, kind |-> kind, body |-> body]

\* AuthResponse(user_id=..., name=..., email=..., token=f"demo-{user_id}")
AuthResponse(user_id, name, email) ==
    [user_id |-> user_id, name |-> name, email |-> email, token |-> "demo-" \o user_id]

\* a User document whose password_hash is not the submitted password
UserDocOtherHash(data) ==
    [name |-> data.name, email |-> data.email, password_hash |-> data.name,
     avatar_url |-> None, role |-> "user", is_active |-> TRUE]

\* the User document that signup writes
UserDoc(data) ==
    [name |-> data.name, email |-> data.email, password_hash |-> data.password,
     avatar_url |-> None, role |-> "user", is_active |-> TRUE]

Return(p, r) ==
    /\ resp' = [resp EXCEPT ![p] = r]
    /\ pc' = [pc EXCEPT ![p] = "idle"]
    /\ loc' = [loc EXCEPT ![p] = NoLoc]

-----------------------------------------------------------------------------
(* Auth *)

Names == {"Ann", "Bob"}
Emails == {"a@x.com", "b@x.com"}
Passwords == {"pw1", "pw2"}

SignupInputs == [op : {"signup"}, name : Names, email : Emails, password : Passwords]
LoginInputs == [op : {"login"}, email : Emails, password : Passwords]

\* signup, lines 138-140: the existence check
signup_check(p) ==
    /\ pc[p] = "signup"
    /\ IF ~db
       THEN Return(p, ServerError)
       ELSE LET existing == get_documents(user, SignupFilter(req[p]))
            IN IF existing # <<>>
               THEN Return(p, HTTPException(400, "User already exists"))
               ELSE /\ pc' = [pc EXCEPT ![p] = "signup_create"]
                    /\ UNCHANGED <<resp, loc>>
    /\ UNCHANGED <<db, store, nextId, req>>

\* an insert that checks the email once more and refuses a stored one
signup_create_rechecked(p) ==
    /\ pc[p] = "signup_create"
    /\ IF ~db
       THEN /\ Return(p, ServerError)
            /\ UNCHANGED <<user, nextId>>
       ELSE IF get_documents(user, SignupFilter(req[p])) # <<>>
            THEN /\ Return(p, HTTPException(400, "User already exists"))
                 /\ UNCHANGED <<user, nextId>>
            ELSE /\ user' = create_document(user, UserDoc(req[p]))
                 /\ nextId' = nextId + 1
                 /\ Return(p, Ok("AuthResponse",
                                 AuthResponse(Str(nextId), req[p].name, req[p].email)))
    /\ UNCHANGED <<db, blogpost, contactmessage, req>>

\* signup, lines 141-152: the insert and the response
signup_create(p) ==
    /\ pc[p] = "signup_create"
    /\ IF ~db
       THEN /\ Return(p, ServerError)
            /\ UNCHANGED <<user, nextId>>
       ELSE /\ user' = create_document(user, UserDoc(req[p]))
            /\ nextId' = nextId + 1
            /\ Return(p, Ok("AuthResponse",
                            AuthResponse(Str(nextId), req[p].name, req[p].email)))
    /\ UNCHANGED <<db, blogpost, contactmessage, req>>

\* login, lines 156-160
login(p) ==
    /\ pc[p] = "login"
    /\ IF ~db
       THEN Return(p, ServerError)
       ELSE LET users == get_documents(user, LoginFilter(req[p]))
            IN IF users = <<>>
               THEN Return(p, HTTPException(401, "Invalid credentials"))
               ELSE LET u == users[1]
                    IN Return(p, Ok("AuthResponse",
                                    AuthResponse(Str(u._id), Get(u, "name", "User"), u.email)))
    /\ UNCHANGED <<db, store, nextId, req>>

-----------------------------------------------------------------------------
(* Blog *)

\* the two fallback posts of list_blog, lines 187-208
SeedPosts(now) ==
    << [title |-> <<"I","n","t","r","o","d","u","c","i","n","g"," ","O","u",
                    "r"," ","F","i","n","t","e","c","h"," ","T","o","o","l",
                    "k","i","t">>,
        excerpt |-> Some(<<"A"," ","g","e","n","t","l","e",","," ","p","a","s","t",
                      "e","l","-","f","i","r","s","t"," ","U","I"," ","k","i",
                      "t"," ","f","o","r"," ","m","o","d","e","r","n"," ","S",
                      "a","a","S",".">>),
        content |-> <<"B","u","i","l","d"," ","f","a","s","t","e","r"," ","w",
                      "i","t","h"," ","e","l","e","g","a","n","t"," ","d","e",
                      "f","a","u","l","t","s"," ","a","n","d"," ","a"," ","c",
                      "l","e","a","n"," ","A","P","I",".">>,
        author_name |-> "Team",
        slug |-> <<"i","n","t","r","o","d","u","c","i","n","g","-","o","u",
                   "r","-","f","i","n","t","e","c","h","-","t","o","o","l",
                   "k","i","t">>,
        status |-> Some("published"), published_at |-> Some(now), tags |-> <<"product",
                                                                  "design">>],
       [title |-> <<"D","e","s","i","g","n","i","n","g"," ","w","i","t","h",
                    " ","P","a","s","t","e","l","s">>,
        excerpt |-> Some(<<"W","h","y"," ","s","o","f","t"," ","p","a","l","e","t",
                      "t","e","s"," ","c","o","n","v","e","r","t"," ","b","e",
                      "t","t","e","r",".">>),
        content |-> <<"P","a","s","t","e","l"," ","t","h","e","m","e","s"," ",
                      "r","e","d","u","c","e"," ","c","o","g","n","i","t","i",
                      "v","e"," ","l","o","a","d"," ","a","n","d"," ","f","e",
                      "e","l"," ","p","r","e","m","i","u","m",".">>,
        author_name |-> "Design",
        slug |-> <<"d","e","s","i","g","n","i","n","g","-","w","i","t","h",
                   "-","p","a","s","t","e","l","s">>,
        status |-> Some("published"), published_at |-> Some(now), tags |->
                                                                 <<"design">>] >>

\* BlogItem(id=str(d.get("_id")), ...), lines 215-224
BlogItem(d) ==
    [id |-> Str(d._id), title |-> d.title, excerpt |-> GetOpt(d, "excerpt"),
     content |-> d.content, author_name |-> Get(d, "author_name", "Team"),
     slug |-> d.slug, published_at |-> Or(GetOpt(d, "published_at"), utcnow),
     tags |-> Get(d, "tags", <<>>)]

\* lines 212-226: the response built from the documents found
BlogItems(posts) == [i \in 1..Len(posts) |-> BlogItem(posts[i])]

\* the BlogPost document that create_blog writes, lines 230-240
BlogDoc(post) ==
    [title |-> post.title, excerpt |-> Some(Excerpt(post.content)),
     content |-> post.content, author_name |-> post.author_name,
     slug |-> Slug(post.title), status |-> Some("published"),
     published_at |-> Some(utcnow), tags |-> TagsOrEmpty(post.tags)]

\* a listing that seeds whenever it finds fewer than two posts
list_blog_seed_when_short(p) ==
    /\ pc[p] = "list_blog"
    /\ IF ~db
       THEN Return(p, ServerError)
       ELSE LET posts == get_documents(blogpost, StatusFilter)
            IN IF Len(posts) < 2
               THEN /\ pc' = [pc EXCEPT ![p] = "list_seed"]
                    /\ loc' = [loc EXCEPT ![p] = [posts |-> posts, now |-> utcnow, i |-> 1]]
                    /\ UNCHANGED resp
               ELSE Return(p, Ok("BlogItems", BlogItems(posts)))
    /\ UNCHANGED <<db, store, nextId, req>>

\* list_blog, lines 183-186 (and 212-226 when posts were found)
list_blog(p) ==
    /\ pc[p] = "list_blog"
    /\ IF ~db
       THEN Return(p, ServerError)
       ELSE LET posts == get_documents(blogpost, StatusFilter)
            IN IF posts = <<>>
               THEN /\ pc' = [pc EXCEPT ![p] = "list_seed"]
                    /\ loc' = [loc EXCEPT ![p] = [posts |-> posts, now |-> utcnow, i |-> 1]]
                    /\ UNCHANGED resp
               ELSE Return(p, Ok("BlogItems", BlogItems(posts)))
    /\ UNCHANGED <<db, store, nextId, req>>

\* a seeding turn that skips a seed post whose slug is already stored
list_seed_unless_present(p) ==
    /\ pc[p] = "list_seed"
    /\ IF ~db
       THEN /\ Return(p, ServerError)
            /\ UNCHANGED <<blogpost, nextId>>
       ELSE LET seed == SeedPosts(loc[p].now)[loc[p].i]
            IN /\ IF \E i \in 1..Len(blogpost) : blogpost[i].slug = seed.slug
                  THEN UNCHANGED <<blogpost, nextId>>
                  ELSE /\ blogpost' = create_document(blogpost, seed)
                       /\ nextId' = nextId + 1
               /\ IF loc[p].i < Len(SeedPosts(loc[p].now))
                  THEN /\ loc' = [loc EXCEPT ![p].i = @ + 1]
                       /\ UNCHANGED pc
                  ELSE /\ pc' = [pc EXCEPT ![p] = "list_requery"]
                       /\ UNCHANGED loc
               /\ UNCHANGED resp
    /\ UNCHANGED <<db, user, contactmessage, req>>

\* list_blog, lines 187-209: one turn of the seeding loop
list_seed(p) ==
    /\ pc[p] = "list_seed"
    /\ IF ~db
       THEN /\ Return(p, ServerError)
            /\ UNCHANGED <<blogpost, nextId>>
       ELSE /\ blogpost' = create_document(blogpost, SeedPosts(loc[p].now)[loc[p].i])
            /\ nextId' = nextId + 1
            /\ IF loc[p].i < Len(SeedPosts(loc[p].now))
               THEN /\ loc' = [loc EXCEPT ![p].i = @ + 1]
                    /\ UNCHANGED pc
               ELSE /\ pc' = [pc EXCEPT ![p] = "list_requery"]
                    /\ UNCHANGED loc
            /\ UNCHANGED resp
    /\ UNCHANGED <<db, user, contactmessage, req>>

\* list_blog, lines 210-226: the second query and the response
list_requery(p) ==
    /\ pc[p] = "list_requery"
    /\ IF ~db
       THEN Return(p, ServerError)
       ELSE Return(p, Ok("BlogItems",
                         BlogItems(get_documents(blogpost, StatusFilter))))
    /\ UNCHANGED <<db, store, nextId, req>>

\* create_blog, lines 230-242
create_blog(p) ==
    /\ pc[p] = "create_blog"
    /\ IF ~db
       THEN /\ Return(p, ServerError)
            /\ UNCHANGED <<blogpost, nextId>>
       ELSE LET data == BlogDoc(req[p])
            IN /\ blogpost' = create_document(blogpost, data)
               /\ nextId' = nextId + 1
               /\ Return(p, Ok("BlogItem",
                               [id |-> Str(nextId), title |-> data.title,
                                excerpt |-> data.excerpt, content |-> data.content,
                                author_name |-> data.author_name, slug |-> data.slug,
                                published_at |-> data.published_at[1],
                                tags |-> data.tags]))
    /\ UNCHANGED <<db, user, contactmessage, req>>

\* content of n characters, the digits 0..9 in rotation
Content(n) == [i \in 1..n |-> ToString(i % 10)]

HelloWorld == <<"H","e","l","l","o"," ","W","o","r","l","d">>
Punctuated == <<"Q","&","A",":"," "," ","T","i","p","s","!">>
Greek == <<"U+0391","U+03A3"," ","U+03A3","U+0391">>
Dotted == <<"U+0130","U+00C9","t","A">>

BlogInputs ==
    { [op |-> "create_blog", title |-> HelloWorld, content |-> Content(2),
       author_name |-> "Ann", tags |-> None],
      [op |-> "create_blog", title |-> HelloWorld, content |-> Content(ExcerptLen + 1),
       author_name |-> "Bob", tags |-> Some(<<"news", "note">>)],
      [op |-> "create_blog", title |-> Punctuated, content |-> Content(ExcerptLen),
       author_name |-> "Ann", tags |-> Some(<<>>)],
      [op |-> "create_blog", title |-> Punctuated, content |-> Content(ExcerptLen + 1),
       author_name |-> "Bob", tags |-> None],
      [op |-> "create_blog", title |-> Greek, content |-> Content(0),
       author_name |-> "Ann", tags |-> None],
      [op |-> "create_blog", title |-> Dotted, content |-> Content(2),
       author_name |-> "Bob", tags |-> None] }

\* posts written to the store directly, before the server started
DraftDoc ==
    [_id |-> 0, title |-> <<"D","r","a","f","t"," ","N","o","t","e","s">>,
     content |-> Content(3), author_name |-> "Ann",
     slug |-> <<"d","r","a","f","t","-","n","o","t","e","s">>,
     status |-> Some("draft"), tags |-> <<>>]
LegacyDoc ==
    [_id |-> 0, title |-> <<"O","l","d"," ","P","o","s","t">>,
     content |-> Content(3),
     slug |-> <<"o","l","d","-","p","o","s","t">>]
NullDoc ==
    [_id |-> 0, title |-> <<"O","l","d"," ","P","o","s","t">>,
     excerpt |-> None, content |-> Content(3), author_name |-> "Ann",
     slug |-> <<"o","l","d","-","p","o","s","t">>,
     status |-> None, published_at |-> None, tags |-> <<"news">>]

-----------------------------------------------------------------------------
(* Contact *)

\* a ContactMessage document that drops the subject
ContactDocNoSubject(data) ==
    [name |-> data.name, email |-> data.email, message |-> data.message,
     subject |-> None, status |-> "new", received_at |-> utcnow]

\* the ContactMessage document that submit_contact writes, lines 260-267
ContactDoc(data) ==
    [name |-> data.name, email |-> data.email, message |-> data.message,
     subject |-> data.subject, status |-> "new", received_at |-> utcnow]

\* a contact handler that swallows the failure of the insert
submit_contact_swallowing(p) ==
    /\ pc[p] = "submit_contact"
    /\ IF ~db
       THEN /\ Return(p, Ok("ContactResponse", [ok |-> TRUE]))
            /\ UNCHANGED <<contactmessage, nextId>>
       ELSE /\ contactmessage' = create_document(contactmessage, ContactDoc(req[p]))
            /\ nextId' = nextId + 1
            /\ Return(p, Ok("ContactResponse", [ok |-> TRUE]))
    /\ UNCHANGED <<db, user, blogpost, req>>

\* submit_contact, lines 258-269
submit_contact(p) ==
    /\ pc[p] = "submit_contact"
    /\ IF ~db
       THEN /\ Return(p, ServerError)
            /\ UNCHANGED <<contactmessage, nextId>>
       ELSE /\ contactmessage' = create_document(contactmessage, ContactDoc(req[p]))
            /\ nextId' = nextId + 1
            /\ Return(p, Ok("ContactResponse", [ok |-> TRUE]))
    /\ UNCHANGED <<db, user, blogpost, req>>

ContactInputs ==
    { [op |-> "submit_contact", name |-> "Jane", email |-> "jane@x.com",
       message |-> "Hi", subject |-> None],
      [op |-> "submit_contact", name |-> "Bob", email |-> "b@x.com",
       message |-> "Call me", subject |-> Some("Sales")] }

-----------------------------------------------------------------------------
(* Pricing *)

Plan(id, name, price, features, cta, popular) ==
    [id |-> id, name |-> name, price |-> price, period |-> "/mo",
     features |-> features, cta |-> cta, popular |-> popular]

\* lines 74-114
Plans ==
    << Plan("starter", "Starter", "$0",
            <<"Up to 3 projects", "Basic analytics", "Community support">>,
            "Get Started", FALSE),
       Plan("pro", "Pro", "$19",
            <<"Unlimited projects", "Advanced analytics", "Email support",
              "Automation rules">>,
            "Start Free Trial", TRUE),
       Plan("business", "Business", "$49",
            <<"Everything in Pro", "Team seats (5)", "Priority support",
               "Audit logs">>,
            "Contact Sales", FALSE) >>

\* get_pricing, lines 72-114
get_pricing(p) ==
    /\ pc[p] = "get_pricing"
    /\ Return(p, Ok("Plans", Plans))
    /\ UNCHANGED <<db, store, nextId, req>>

-----------------------------------------------------------------------------
(* Requests *)

\* a request arrives at an idle worker and is routed to its handler
Request(p, r) ==
    /\ pc[p] = "idle"
    /\ pc' = [pc EXCEPT ![p] = r.op]
    /\ req' = [req EXCEPT ![p] = r]
    /\ resp' = [resp EXCEPT ![p] = NoResp]
    /\ UNCHANGED <<db, store, nextId, loc>>

\* documents that the requests in flight may still insert
RECURSIVE Sum(_, _)
Sum(f, S) == IF S = {} THEN 0 ELSE LET x == CHOOSE x \in S : TRUE IN f[x] + Sum(f, S \ {x})

PendingUsers == Sum([p \in Procs |-> IF pc[p] \in {"signup", "signup_create"} THEN 1 ELSE 0], Procs)
PendingPosts ==
    Sum([p \in Procs |-> CASE pc[p] = "create_blog" -> 1
                           [] pc[p] = "list_blog" -> 2
                           [] pc[p] = "list_seed" -> 3 - loc[p].i
                           [] OTHER -> 0], Procs)
PendingMsgs == Sum([p \in Procs |-> IF pc[p] = "submit_contact" THEN 1 ELSE 0], Procs)

\* room in the whole store, which bounds the runs of the whole server
RoomInStore(n) ==
    Len(user) + Len(blogpost) + Len(contactmessage)
        + PendingUsers + PendingPosts + PendingMsgs + n <= MaxDocs

RoomForUser == Len(user) + PendingUsers < MaxUsers
RoomForPost == Len(blogpost) + PendingPosts < MaxPosts
RoomForSeeds == Len(blogpost) + PendingPosts + 2 <= MaxPosts
RoomForMsg == Len(contactmessage) + PendingMsgs < MaxMsgs

InitWith(posts) ==
    /\ db \in BOOLEAN
    /\ user = <<>>
    /\ blogpost \in posts
    /\ contactmessage = <<>>
    /\ nextId = 1
    /\ pc = [p \in Procs |-> "idle"]
    /\ req = [p \in Procs |-> NoReq]
    /\ loc = [p \in Procs |-> NoLoc]
    /\ resp = [p \in Procs |-> NoResp]

Init == InitWith({<<>>})

AuthHandlers(p) ==
    \/ signup_check(p)
    \/ signup_create(p)
    \/ login(p)

BlogHandlers(p) ==
    \/ list_blog(p)
    \/ list_seed(p)
    \/ list_requery(p)
    \/ create_blog(p)

(* The auth endpoints alone *)
NextAuth ==
    \E p \in Procs :
        \/ \E r \in SignupInputs : RoomForUser /\ Request(p, r)
        \/ \E r \in LoginInputs : Request(p, r)
        \/ AuthHandlers(p)

SpecAuth == Init /\ [][NextAuth]_vars

(* The blog endpoints alone, over a store that may hold older posts *)
InitBlog == InitWith({<<>>, <<DraftDoc>>, <<LegacyDoc>>, <<NullDoc>>})

NextBlog ==
    \E p \in Procs :
        \/ RoomForSeeds /\ Request(p, [op |-> "list_blog"])
        \/ \E r \in BlogInputs : RoomForPost /\ Request(p, r)
        \/ BlogHandlers(p)

SpecBlog == InitBlog /\ [][NextBlog]_vars

(* The whole server *)
SomeSignups == {r \in SignupInputs : r.email = "a@x.com" /\ r.name = "Ann"}
SomeLogins == {r \in LoginInputs : r.email = "a@x.com" /\ r.password = "pw1"}
SomePosts == {r \in BlogInputs : r.title = HelloWorld /\ r.tags = None}

Next ==
    \E p \in Procs :
        \/ \E r \in SomeSignups : RoomInStore(1) /\ RoomForUser /\ Request(p, r)
        \/ \E r \in SomeLogins : Request(p, r)
        \/ Request(p, [op |-> "get_pricing"])
        \/ RoomInStore(2) /\ RoomForSeeds /\ Request(p, [op |-> "list_blog"])
        \/ \E r \in SomePosts : RoomInStore(1) /\ RoomForPost /\ Request(p, r)
        \/ \E r \in ContactInputs : RoomInStore(1) /\ RoomForMsg /\ Request(p, r)
        \/ AuthHandlers(p)
        \/ BlogHandlers(p)
        \/ get_pricing(p)
        \/ submit_contact(p)

Spec == Init /\ [][Next]_vars

-----------------------------------------------------------------------------
(* Steps of a handler, as seen in a pair of states *)

\* worker p leaves the point `at' of its handler
Leaves(p, at) == pc[p] = at /\ pc'[p] # at

\* worker p holds the response to a finished request `op'
Done(p, op) == pc[p] = "idle" /\ req[p].op = op /\ resp[p].kind # "none"

UsersWithEmail(coll, e) == {i \in 1..Len(coll) : coll[i].email = e}

-----------------------------------------------------------------------------
(* Properties of the auth endpoints, under SpecAuth *)

\* C1: with the store connected, a signup whose email no stored User has
\* passes the existence check and then succeeds, answering the id of the User
\* it stored and the token "demo-" + id; and a login with the email and
\* password of a finished signup, while that email belongs to one User only,
\* succeeds with the same user id and token as the signup answered.
C1_SignupThenLogin ==
    [][\A p \in Procs :
        /\ (Leaves(p, "signup") /\ db /\ UsersWithEmail(user, req[p].email) = {})
              => pc'[p] = "signup_create"
        /\ (Leaves(p, "signup_create") /\ db)
              => /\ pc'[p] = "idle"
                 /\ resp'[p].status = 200
                 /\ resp'[p].kind = "AuthResponse"
                 /\ Len(user') = Len(user) + 1
                 /\ resp'[p].body.user_id = Str(user'[Len(user')]._id)
                 /\ resp'[p].body.token = "demo-" \o resp'[p].body.user_id
                 /\ user'[Len(user')].email = req[p].email
                 /\ user'[Len(user')].password_hash = req[p].password
        /\ Leaves(p, "login")
              => \A q \in Procs :
                    (/\ Done(q, "signup")
                     /\ resp[q].status = 200
                     /\ req[q].email = req[p].email
                     /\ req[q].password = req[p].password
                     /\ Cardinality(UsersWithEmail(user, req[p].email)) = 1)
                    => /\ resp'[p].status = 200
                       /\ resp'[p].kind = "AuthResponse"
                       /\ resp'[p].body.user_id = resp[q].body.user_id
                       /\ resp'[p].body.token = "demo-" \o resp[q].body.user_id
                       /\ resp'[p].body.token = resp[q].body.token
    ]_vars

\* a login has answered the id that the signup of the same credentials
\* answered, with a User of another email in the store as well
C1_Witness ==
    \E p, q \in Procs :
        /\ Done(p, "signup") /\ resp[p].status = 200
        /\ Done(q, "login") /\ resp[q].status = 200
        /\ req[q].email = req[p].email /\ req[q].password = req[p].password
        /\ resp[q].body.user_id = resp[p].body.user_id
        /\ resp[q].body.token = "demo-" \o resp[p].body.user_id
        /\ \E i \in 1..Len(user) : user[i].email # req[p].email

\* C2: a signup whose existence check finds a stored User with its email
\* answers 400 "User already exists", whatever its name and password, and
\* inserts nothing.
C2_DuplicateEmailConflict ==
    [][\A p \in Procs :
        (Leaves(p, "signup") /\ UsersWithEmail(user, req[p].email) # {})
            => /\ pc'[p] = "idle"
               /\ resp'[p] = HTTPException(400, "User already exists")
               /\ user' = user
    ]_vars

\* a signup was refused although its name and password differ from the
\* stored User's
C2_Witness ==
    \E p \in Procs :
        /\ Done(p, "signup") /\ resp[p].status = 400
        /\ \E i \in UsersWithEmail(user, req[p].email) :
              user[i].name # req[p].name /\ user[i].password_hash # req[p].password

\* C3: a login whose email belongs to a stored User, but whose password is
\* the password_hash of no User with that email, answers 401 "Invalid
\* credentials", carries no user id or token, and leaves the store unchanged.
C3_WrongPasswordUnauthorized ==
    [][\A p \in Procs :
        (/\ Leaves(p, "login")
         /\ UsersWithEmail(user, req[p].email) # {}
         /\ \A i \in UsersWithEmail(user, req[p].email) :
               user[i].password_hash # req[p].password)
            => /\ pc'[p] = "idle"
               /\ resp'[p] = HTTPException(401, "Invalid credentials")
               /\ DOMAIN resp'[p].body = {"detail"}
               /\ UNCHANGED store
    ]_vars

\* a login with a wrong password for a stored email was refused
C3_Witness ==
    \E p \in Procs :
        /\ Done(p, "login") /\ resp[p].status = 401
        /\ UsersWithEmail(user, req[p].email) # {}

-----------------------------------------------------------------------------
(* Properties of the blog endpoints, under SpecBlog *)

SeedSlugs ==
    << <<"i","n","t","r","o","d","u","c","i","n","g","-","o","u","r","-","f",
         "i","n","t","e","c","h","-","t","o","o","l","k","i","t">>,
       <<"d","e","s","i","g","n","i","n","g","-","w","i","t","h","-","p","a",
         "s","t","e","l","s">> >>

Slugs(items) == [i \in 1..Len(items) |-> items[i].slug]
Ids(items) == {items[i].id : i \in 1..Len(items)}

\* C4: with the store connected, a listing that finds the blogpost collection
\* empty goes on to seed; when it re-queries a collection that holds just its
\* two inserts, it answers exactly the two seed posts, in order, and they are
\* in the store as published posts.  A listing whose first query finds
\* published posts inserts nothing and answers every one of them, so a
\* listing that follows a seeding answers no fewer than the two seed posts.
C4_EmptyListingSeedsTwo ==
    [][\A p \in Procs :
        /\ (Leaves(p, "list_blog") /\ db /\ blogpost = <<>>)
              => pc'[p] = "list_seed" /\ blogpost' = blogpost
        /\ (Leaves(p, "list_requery") /\ db /\ Len(blogpost) = 2)
              => /\ pc'[p] = "idle"
                 /\ resp'[p].status = 200
                 /\ resp'[p].kind = "BlogItems"
                 /\ Slugs(resp'[p].body) = SeedSlugs
                 /\ blogpost' = blogpost
                 /\ \A i \in 1..2 :
                       /\ blogpost[i].slug = SeedSlugs[i]
                       /\ blogpost[i].status = Some("published")
                       /\ resp'[p].body[i].id = Str(blogpost[i]._id)
        /\ (/\ Leaves(p, "list_blog") /\ db
            /\ \E i \in 1..Len(blogpost) :
                  blogpost[i].slug = SeedSlugs[1]
                     /\ blogpost[i].status = Some("published"))
              => /\ pc'[p] = "idle"
                 /\ blogpost' = blogpost
                 /\ resp'[p].status = 200
                 /\ resp'[p].kind = "BlogItems"
                 /\ \A i \in 1..Len(blogpost) :
                       (blogpost[i].slug \in {SeedSlugs[1], SeedSlugs[2]}
                          /\ blogpost[i].status = Some("published"))
                       => Str(blogpost[i]._id) \in Ids(resp'[p].body)
    ]_vars

\* one listing seeded the empty collection and answered the two seed posts,
\* and a second listing answered the same two posts and inserted nothing
C4_Witness ==
    /\ Len(blogpost) = 2
    /\ \A p \in Procs :
          /\ Done(p, "list_blog") /\ resp[p].status = 200
          /\ Slugs(resp[p].body) = SeedSlugs
          /\ Ids(resp[p].body) = {Str(blogpost[1]._id), Str(blogpost[2]._id)}

\* slug is the lower-case title with "-" for every space and every other
\* character as it is
IsSlugOf(title, slug) ==
    LET lowered == Lower(title)
    IN /\ Len(slug) = Len(lowered)
       /\ \A i \in 1..Len(lowered) :
             IF lowered[i] = " " THEN slug[i] = "-" ELSE slug[i] = lowered[i]

\* excerpt is the first 140 characters of content, followed by "..." exactly
\* when content has more than 140 characters
IsExcerptOf(content, excerpt) ==
    IF Len(content) > 140
    THEN /\ Len(excerpt) = 143
         /\ \A i \in 1..140 : excerpt[i] = content[i]
         /\ \A i \in 141..143 : excerpt[i] = "."
    ELSE excerpt = content

\* C5: the post that create_blog stores and answers has the slug of its
\* title (lower case, "-" for each space, the rest verbatim), the excerpt of
\* its content (first 140 characters, "..." iff longer) and status
\* "published"; the title "Hello World" gives the slug "hello-world".
C5_SlugAndExcerpt ==
    [][\A p \in Procs :
        (Leaves(p, "create_blog") /\ resp'[p].status = 200)
            => /\ Len(blogpost') = Len(blogpost) + 1
               /\ LET d == blogpost'[Len(blogpost')]
                      r == resp'[p].body
                  IN /\ resp'[p].kind = "BlogItem"
                     /\ r.id = Str(d._id)
                     /\ d.title = req[p].title /\ r.title = req[p].title
                     /\ d.content = req[p].content
                     /\ IsSlugOf(req[p].title, d.slug)
                     /\ r.slug = d.slug
                     /\ d.excerpt # None
                     /\ IsExcerptOf(req[p].content, d.excerpt[1])
                     /\ r.excerpt = d.excerpt
                     /\ d.status = Some("published")
                     /\ (req[p].title = Greek
                           => d.slug = <<"U+03B1","U+03C2","-","U+03C3","U+03B1">>)
                     /\ (req[p].title = Dotted
                           => d.slug = <<"i","U+0307","U+00E9","t","a">>)
                     /\ (req[p].title = <<"H","e","l","l","o"," ","W","o","r",
                                          "l","d">>
                           => d.slug = <<"h","e","l","l","o","-","w","o","r",
                                         "l","d">>)
    ]_vars

\* a post titled "Hello World" with content longer than 140 characters was
\* created: its slug is "hello-world" and its excerpt ends in "..."
C5_Witness ==
    \E p \in Procs :
        /\ Done(p, "create_blog") /\ resp[p].status = 200
        /\ req[p].title = HelloWorld
        /\ Len(req[p].content) > 140
        /\ resp[p].body.slug = <<"h","e","l","l","o","-","w","o","r","l","d">>
        /\ SubSeq(resp[p].body.excerpt[1], 141, 143) = <<".", ".", ".">>
        /\ \E i \in 1..Len(blogpost) : Str(blogpost[i]._id) = resp[p].body.id

\* worker p takes one turn of the seeding loop
Seeds(p) == pc[p] = "list_seed" /\ <<pc[p], loc[p]>>' # <<pc[p], loc[p]>>

PublishedWithSlug(coll, slug) ==
    {i \in 1..Len(coll) : coll[i].slug = slug /\ coll[i].status = Some("published")}

\* C9: the seeding loop never looks at the collection again: a turn that
\* finds its seed post already stored by a concurrent listing inserts it once
\* more, so two published posts share the slug; and the re-query answers
\* every published or unset post, the duplicates included.
C9_RacingListingsBothSeed ==
    [][\A p \in Procs :
        /\ (/\ Seeds(p) /\ db
            /\ PublishedWithSlug(blogpost, SeedSlugs[loc[p].i]) # {})
              => /\ Len(blogpost') = Len(blogpost) + 1
                 /\ SubSeq(blogpost', 1, Len(blogpost)) = blogpost
                 /\ blogpost'[Len(blogpost')].slug = SeedSlugs[loc[p].i]
                 /\ Cardinality(PublishedWithSlug(blogpost', SeedSlugs[loc[p].i])) >= 2
        /\ (Leaves(p, "list_requery") /\ db)
              => /\ resp'[p].kind = "BlogItems"
                 /\ \A i \in 1..Len(blogpost) :
                       ("status" \notin DOMAIN blogpost[i]
                          \/ blogpost[i].status \in {Some("published"), None})
                       => Str(blogpost[i]._id) \in Ids(resp'[p].body)
                 /\ Len(resp'[p].body) >= Cardinality(PublishedWithSlug(blogpost, SeedSlugs[1]))
                                            + Cardinality(PublishedWithSlug(blogpost, SeedSlugs[2]))
    ]_vars

\* two listings of the empty collection both seeded: the store holds each
\* seed slug twice and a listing answered four posts
C9_Witness ==
    /\ Cardinality(PublishedWithSlug(blogpost, SeedSlugs[1])) = 2
    /\ Cardinality(PublishedWithSlug(blogpost, SeedSlugs[2])) = 2
    /\ \E p \in Procs :
          /\ Done(p, "list_blog") /\ resp[p].status = 200
          /\ Len(resp[p].body) = 4
          /\ \E i, j \in 1..4 : i # j /\ resp[p].body[i].slug = resp[p].body[j].slug

-----------------------------------------------------------------------------
(* The signup race, under SpecAuth *)

\* C8: the insert of signup does not look at the collection again: a signup
\* that passed the existence check inserts and succeeds although a
\* concurrent signup has stored its email in between, so two Users share the
\* email and the caller gets an id that no stored User had.
C8_RacingSignupsBothInsert ==
    [][\A p \in Procs :
        (/\ Leaves(p, "signup_create") /\ db
         /\ UsersWithEmail(user, req[p].email) # {})
            => /\ resp'[p].status = 200
               /\ resp'[p].kind = "AuthResponse"
               /\ Len(user') = Len(user) + 1
               /\ SubSeq(user', 1, Len(user)) = user
               /\ user'[Len(user')].email = req[p].email
               /\ Cardinality(UsersWithEmail(user', req[p].email)) >= 2
               /\ resp'[p].body.user_id = Str(user'[Len(user')]._id)
               /\ \A i \in 1..Len(user) : Str(user[i]._id) # resp'[p].body.user_id
    ]_vars

\* two signups with one email both succeeded, with different user ids, and
\* the store holds two Users with that email
C8_Witness ==
    \E p, q \in Procs :
        /\ p # q
        /\ Done(p, "signup") /\ resp[p].status = 200
        /\ Done(q, "signup") /\ resp[q].status = 200
        /\ req[p].email = req[q].email
        /\ resp[p].body.user_id # resp[q].body.user_id
        /\ Cardinality(UsersWithEmail(user, req[p].email)) = 2

-----------------------------------------------------------------------------
(* Properties of the whole server, under Spec *)

IsPrefix(s, t) == Len(s) <= Len(t) /\ SubSeq(t, 1, Len(s)) = s

\* C6: a contact submission that succeeds appends exactly one ContactMessage
\* with the submitted name, email, message and subject and status "new",
\* answers {ok: true}, and leaves the users and the blog posts alone.
C6_ContactAppendsOne ==
    [][\A p \in Procs :
        (Leaves(p, "submit_contact") /\ resp'[p].status = 200)
            => /\ Len(contactmessage') = Len(contactmessage) + 1
               /\ SubSeq(contactmessage', 1, Len(contactmessage)) = contactmessage
               /\ LET d == contactmessage'[Len(contactmessage')]
                  IN /\ d.name = req[p].name
                     /\ d.email = req[p].email
                     /\ d.message = req[p].message
                     /\ d.subject = req[p].subject
                     /\ d.status = "new"
               /\ resp'[p].kind = "ContactResponse"
               /\ resp'[p].body = [ok |-> TRUE]
               /\ UNCHANGED <<user, blogpost>>
    ]_vars

\* a contact message with a subject was accepted and stored while the store
\* held a user and blog posts
C6_Witness ==
    \E p \in Procs :
        /\ Done(p, "submit_contact") /\ resp[p].status = 200
        /\ req[p].subject # None
        /\ Len(contactmessage) = 1
        /\ contactmessage[1].subject = req[p].subject
        /\ contactmessage[1].status = "new"
        /\ Len(user) >= 1 /\ Len(blogpost) >= 1

StoreOps == {"signup", "login", "list_blog", "create_blog", "submit_contact"}

\* C7: without a store connection every finished signup, login, blog list,
\* blog create and contact holds an error response and nothing is stored;
\* and a success response of signup, blog create or contact means that the
\* document it speaks of is in its collection.
C7_NoSuccessWithoutWrite ==
    \A p \in Procs :
        /\ (~db /\ pc[p] = "idle" /\ req[p].op \in StoreOps)
              => resp[p].status = 500 /\ resp[p].kind = "error"
        /\ ~db => store = <<<<>>, <<>>, <<>>>>
        /\ (Done(p, "signup") /\ resp[p].status = 200)
              => \E i \in 1..Len(user) :
                    /\ Str(user[i]._id) = resp[p].body.user_id
                    /\ user[i].email = req[p].email
                    /\ user[i].name = req[p].name
                    /\ user[i].password_hash = req[p].password
        /\ (Done(p, "create_blog") /\ resp[p].status = 200)
              => \E i \in 1..Len(blogpost) :
                    /\ Str(blogpost[i]._id) = resp[p].body.id
                    /\ blogpost[i].title = req[p].title
                    /\ blogpost[i].content = req[p].content
        /\ (Done(p, "submit_contact") /\ resp[p].status = 200)
              => \E i \in 1..Len(contactmessage) :
                    /\ contactmessage[i].name = req[p].name
                    /\ contactmessage[i].email = req[p].email
                    /\ contactmessage[i].message = req[p].message
                    /\ contactmessage[i].subject = req[p].subject

\* without a store connection a contact submission and a signup have both
\* ended in an error
C7_Witness ==
    /\ ~db
    /\ \E p, q \in Procs :
          /\ Done(p, "submit_contact") /\ resp[p].status = 500
          /\ Done(q, "signup") /\ resp[q].status = 500

\* worker p takes a step of list_blog
Lists(p) ==
    /\ pc[p] \in {"list_blog", "list_seed", "list_requery"}
    /\ <<pc[p], loc[p]>>' # <<pc[p], loc[p]>>

\* C10: every step keeps each collection as a prefix of what it becomes, so
\* no stored document is ever changed or removed; login and pricing leave
\* the store as it is; and a blog listing inserts only in its seeding loop,
\* after its first query found no published or unset post, and only posts.
C10_AppendOnly ==
    [][/\ IsPrefix(user, user')
       /\ IsPrefix(blogpost, blogpost')
       /\ IsPrefix(contactmessage, contactmessage')
       /\ \A p \in Procs :
             /\ (Leaves(p, "login") \/ Leaves(p, "get_pricing")) => UNCHANGED store
             /\ (Lists(p) /\ store' # store)
                   => /\ pc[p] = "list_seed"
                      /\ loc[p].posts = <<>>
                      /\ UNCHANGED <<user, contactmessage>>
             /\ (Leaves(p, "list_blog") /\ db
                 /\ \E i \in 1..Len(blogpost) :
                       \/ "status" \notin DOMAIN blogpost[i]
                       \/ blogpost[i].status \in {Some("published"), None})
                   => pc'[p] = "idle"
    ]_vars

\* all three collections hold documents, and a login and a pricing request
\* have been answered since
C10_Witness ==
    /\ Len(user) >= 1 /\ Len(blogpost) >= 2 /\ Len(contactmessage) >= 1
    /\ \E p, q \in Procs :
          /\ Done(p, "login") /\ resp[p].status = 200
          /\ Done(q, "get_pricing") /\ resp[q].status = 200

====
